---- MODULE Spec2Model ----
(***************************************************************************)
(* The batch engine of the Spanner backend (src/src/db/spanner/batch.rs):  *)
(* create -> append* -> commit | delete over the tables user_collections,   *)
(* bsos, batches and batch_bsos.                                            *)
(*                                                                          *)
(* Every statement of batch.rs is translated as a function from a database  *)
(* value (a record of the four tables) to a database value.  The helpers    *)
(* batch.rs calls but does not define (update_collection_async,             *)
(* check_quota, update_user_collection_quotas, the two batch_commit_*.sql   *)
(* files, the transaction around an operation) are modelled from spec.md.   *)
(***************************************************************************)
EXTENDS Integers, Sequences, FiniteSets, TLC

VARIABLES
    now,            \* the clock: db.timestamp() and CURRENT_TIMESTAMP(), in ms
    quota_enabled,  \* db.quota_enabled, fixed at start-up
    db,             \* the committed tables
    txn,            \* the commit in flight: its position and its uncommitted writes
    next_batch,     \* the next fresh batch id (Uuid::new_v4)
    created,        \* history: batch id -> the scope and the timestamp of its create
    appended,       \* history: batch id -> bso id -> the fields passed so far, later wins
    writes,         \* history: how many calls have written to the tables
    result,         \* what the last step did and returned
    collections,    \* the collections table: rows of id and name
    callers         \* each writer's call of the collection registry: position, name, id

vars == <<now, quota_enabled, db, txn, next_batch, created, appended, writes, result,
          collections, callers>>

----------------------------------------------------------------------------
(* Bounds of the model *)

MaxTime == 3
MaxBatches == 2
MaxBsos == 1
MaxWrites == 3
MaxRecords == 3

(* Program constants, scaled to the model's clock *)

BATCH_LIFETIME == 2
DEFAULT_BSO_TTL == 100
PRETOUCH_TS == 0
MAX_TIMESTAMP == 1000
FirstCustomId == 100
Quota == 3
MsPerSecond == 1000

Users == {"u1", "u2"}
Creators == {"u1"}
Committers == {"u1"}
Colls == {1, 2}
BatchIds == 1..MaxBatches

(* Option<T>: None is the empty sequence, Some(v) a one-element sequence.   *)
(* A NULL column is None.                                                   *)
None == <<>>
Some(v) == <<v>>
UnwrapOr(o, d) == IF o = None THEN d ELSE o[1]

Max(a, b) == IF a >= b THEN a ELSE b
Min(a, b) == IF a <= b THEN a ELSE b

(* Tables are functions from the primary key to the row. *)
EmptyTable == [k \in {} |-> {}]
Put(t, k, row) == [x \in (DOMAIN t) \cup {k} |-> IF x = k THEN row ELSE t[x]]
Drop(t, keys) == [x \in (DOMAIN t) \ keys |-> t[x]]

EmptyDb ==
    [user_collections |-> EmptyTable,   \* <<user, cid>> -> [modified, count, total_bytes]
     bsos             |-> EmptyTable,   \* <<user, cid, bso_id>> -> [sortindex, payload, modified, expiry]
     batches          |-> EmptyTable,   \* <<user, cid, batch_id>> -> [expiry]
     batch_bsos       |-> EmptyTable]   \* <<user, cid, batch_id, bso_id>> -> [sortindex, payload, ttl]

(* params::PostCollectionBso values the callers pass: a full record A, a    *)
(* payload-only record B under another id, and A' that supplies only A's    *)
(* sortindex                                                                *)
PostBsos ==
    {[id |-> "b1", sortindex |-> Some(7), payload |-> Some("a"), ttl |-> Some(1)],
     [id |-> "b2", sortindex |-> None, payload |-> Some("bb"), ttl |-> None],
     [id |-> "b1", sortindex |-> Some(8), payload |-> None, ttl |-> None]}
BsoLists == UNION {[1..n -> PostBsos] : n \in 0..MaxBsos}

(* params.batch.size as the caller of append passes it *)
BatchSizes == {None, Some(2)}

----------------------------------------------------------------------------
(* Helpers of batch.rs that live elsewhere in the repository *)

(* db.check_quota: the stored total_bytes of (user, cid) when quotas are on *)
check_quota(D, user, cid) ==
    IF ~quota_enabled THEN None
    ELSE IF <<user, cid>> \in DOMAIN D.user_collections
         THEN Some(UnwrapOr(D.user_collections[<<user, cid>>].total_bytes, 0))
         ELSE Some(0)

(* db.update_collection_async: stamps user_collections.modified strictly    *)
(* above the stored value; returns the stamp and the database.              *)
NextStamp(D, user, cid, ts) ==
    IF <<user, cid>> \in DOMAIN D.user_collections
    THEN Max(ts, D.user_collections[<<user, cid>>].modified + 1)
    ELSE ts

update_collection_async(D, user, cid, ts) ==
    LET T == NextStamp(D, user, cid, ts)
        row == IF <<user, cid>> \in DOMAIN D.user_collections
               THEN [D.user_collections[<<user, cid>>] EXCEPT !.modified = T]
               ELSE [modified |-> T,
                     count |-> IF quota_enabled THEN Some(0) ELSE None,
                     total_bytes |-> IF quota_enabled THEN Some(0) ELSE None]
    IN [timestamp |-> T,
        db |-> [D EXCEPT !.user_collections = Put(@, <<user, cid>>, row)]]

RECURSIVE SumBytes(_, _)
SumBytes(t, keys) ==
    IF keys = {} THEN 0
    ELSE LET k == CHOOSE x \in keys : TRUE
         IN Len(t[k].payload) + SumBytes(t, keys \ {k})

LiveKeys(D, user, cid, ts) ==
    {k \in DOMAIN D.bsos : k[1] = user /\ k[2] = cid /\ D.bsos[k].expiry > ts}

(* db.update_user_collection_quotas: count and total_bytes recomputed over  *)
(* the non-expired bsos of (user, cid), when quotas are on.                 *)
update_user_collection_quotas(D, user, cid, ts) ==
    IF ~quota_enabled \/ <<user, cid>> \notin DOMAIN D.user_collections THEN D
    ELSE [D EXCEPT !.user_collections[<<user, cid>>] =
            [@ EXCEPT !.count = Some(Cardinality(LiveKeys(D, user, cid, ts))),
                      !.total_bytes = Some(SumBytes(D.bsos, LiveKeys(D, user, cid, ts)))]]

(* the user_collections rows of a user that hold a real timestamp *)
Stamped(D, user) ==
    {k \in DOMAIN D.user_collections :
        k[1] = user /\ D.user_collections[k].modified # PRETOUCH_TS}

(* db.get_storage_modified_sync: the greatest modified of the user's        *)
(* collections, the pretouch sentinel ignored; when there is none, the      *)
(* timestamp ts of the session that asks                                    *)
get_storage_modified_sync(D, user, ts) ==
    IF Stamped(D, user) = {} THEN ts
    ELSE LET top == CHOOSE k \in Stamped(D, user) :
                       \A x \in Stamped(D, user) :
                          D.user_collections[x].modified <= D.user_collections[k].modified
         IN D.user_collections[top].modified

(* db.get_collections_modified_sync: collection -> modified, the pretouched *)
(* collections left out                                                     *)
get_collections_modified_sync(D, user) ==
    [c \in {k[2] : k \in Stamped(D, user)} |-> D.user_collections[<<user, c>>].modified]

----------------------------------------------------------------------------
(* batch.rs *)

(* pretouch_collection_async inserting a timestamp in place of PRETOUCH_TS *)
pretouch_collection_async_Stamped(D, user, cid) ==
    IF <<user, cid>> \in DOMAIN D.user_collections THEN D
    ELSE [D EXCEPT !.user_collections =
            Put(@, <<user, cid>>,
                [modified |-> PRETOUCH_TS + 1,
                 count |-> IF quota_enabled THEN Some(0) ELSE None,
                 total_bytes |-> IF quota_enabled THEN Some(0) ELSE None])]

(* pretouch_collection_async inserting the sentinel row without looking    *)
(* for one                                                                  *)
pretouch_collection_async_Always(D, user, cid) ==
    [D EXCEPT !.user_collections =
        Put(@, <<user, cid>>,
            [modified |-> PRETOUCH_TS,
             count |-> IF quota_enabled THEN Some(0) ELSE None,
             total_bytes |-> IF quota_enabled THEN Some(0) ELSE None])]

(* pretouch_collection_async *)
pretouch_collection_async(D, user, cid) ==
    IF <<user, cid>> \in DOMAIN D.user_collections THEN D
    ELSE [D EXCEPT !.user_collections =
            Put(@, <<user, cid>>,
                [modified |-> PRETOUCH_TS,
                 count |-> IF quota_enabled THEN Some(0) ELSE None,
                 total_bytes |-> IF quota_enabled THEN Some(0) ELSE None])]

(* get_async without the expiry test of its WHERE clause *)
get_async_NoExpiry(D, user, cid, id, ts) ==
    <<user, cid, id>> \in DOMAIN D.batches

(* get_async: SELECT 1 FROM batches WHERE user, collection_id, batch_id     *)
(* AND expiry > CURRENT_TIMESTAMP()                                         *)
get_async(D, user, cid, id, ts) ==
    /\ <<user, cid, id>> \in DOMAIN D.batches
    /\ D.batches[<<user, cid, id>>].expiry > ts

validate_async(D, user, cid, id, ts) == get_async(D, user, cid, id, ts)

(* delete_async without the batch_id test of its WHERE clause *)
delete_async_AnyBatch(D, user, cid, id) ==
    [D EXCEPT !.batches = Drop(@, {k \in DOMAIN @ : k[1] = user /\ k[2] = cid}),
              !.batch_bsos = Drop(@, {k \in DOMAIN @ : k[1] = user /\ k[2] = cid})]

(* delete_async: DELETE FROM batches WHERE user, collection_id, batch_id;   *)
(* batch_bsos is INTERLEAVE IN PARENT batches ON DELETE CASCADE             *)
delete_async(D, user, cid, id) ==
    [D EXCEPT !.batches = Drop(@, {<<user, cid, id>>}),
              !.batch_bsos = Drop(@, {k \in DOMAIN @ :
                                        k[1] = user /\ k[2] = cid /\ k[3] = id})]

(* exist_idx: "{collection_id}::{batch_id}::{bso_id}"; the first two parts  *)
(* hold no colon, so the string determines the triple.                      *)
exist_idx(cid, batch_id, bso_id) == <<cid, batch_id, bso_id>>

(* the prefetch: every staged triple of the user, over all collections and  *)
(* batches                                                                  *)
Existing(D, user) ==
    {exist_idx(k[2], k[3], k[4]) : k \in {x \in DOMAIN D.batch_bsos : x[1] = user}}

(* UpdateRecord: an omitted payload becomes the empty string *)
UpdateRecord(bso) ==
    [sortindex |-> bso.sortindex,
     ttl |-> bso.ttl,
     bso_id |-> bso.id,
     payload |-> UnwrapOr(bso.payload, "")]

(* the loop over bsos: running_size, and each bso filed under insert or update *)
RECURSIVE Partition(_, _, _, _, _)
Partition(bsos, existing, cid, batch_id, acc) ==
    IF bsos = <<>> THEN acc
    ELSE LET bso == Head(bsos)
             idx == exist_idx(cid, batch_id, bso.id)
             size == acc.running_size
                       + (IF bso.payload # None THEN Len(bso.payload[1]) ELSE 0)
         IN IF idx \in existing
            THEN Partition(Tail(bsos), existing, cid, batch_id,
                           [acc EXCEPT !.update = Append(@, UpdateRecord(bso)),
                                       !.running_size = size])
            ELSE Partition(Tail(bsos), existing \cup {idx}, cid, batch_id,
                           [acc EXCEPT !.insert = Append(@, bso),
                                       !.running_size = size])

(* INSERT INTO batch_bsos ... SELECT * FROM UNNEST(@values) *)
RECURSIVE InsertRows(_, _, _, _, _)
InsertRows(t, user, cid, batch_id, insert) ==
    IF insert = <<>> THEN t
    ELSE LET bso == Head(insert)
         IN InsertRows(Put(t, <<user, cid, batch_id, bso.id>>,
                           [sortindex |-> bso.sortindex,
                            payload |-> bso.payload,
                            ttl |-> bso.ttl]),
                       user, cid, batch_id, Tail(insert))

(* UPDATE batch_bsos SET sortindex=@sortindex, payload=@payload, ttl=@ttl   *)
(* WHERE the row's key: all three columns are assigned, whatever was        *)
(* supplied.                                                                *)
UpdateRow(row, val) ==
    [sortindex |-> val.sortindex,
     payload |-> Some(val.payload),
     ttl |-> val.ttl]

RECURSIVE UpdateRows(_, _, _, _, _)
UpdateRows(t, user, cid, batch_id, update) ==
    IF update = <<>> THEN t
    ELSE LET val == Head(update)
             k == <<user, cid, batch_id, val.bso_id>>
         IN UpdateRows(IF k \in DOMAIN t THEN [t EXCEPT ![k] = UpdateRow(@, val)] ELSE t,
                       user, cid, batch_id, Tail(update))

(* the quota check with > for >= *)
OverQuota_Strict(size, running_size) ==
    size # None /\ size[1] + running_size > Quota

(* the quota check of do_append_async *)
OverQuota(size, running_size) ==
    size # None /\ size[1] + running_size >= Quota

(* do_append_async.  accepted: whether the backend executes the per-row     *)
(* UPDATE statements (they bind "bso_id" where the text names               *)
(* @batch_bso_id, and an omitted INT64 as the empty string).                *)
do_append_async(D, user, cid, batch, bsos, accepted) ==
    LET parts == Partition(bsos, Existing(D, user), cid, batch.id,
                           [insert |-> <<>>, update |-> <<>>, running_size |-> 0])
        inserted == [D EXCEPT !.batch_bsos =
                        InsertRows(@, user, cid, batch.id, parts.insert)]
    IN IF OverQuota(batch.size, parts.running_size)
       THEN [status |-> "Quota", db |-> D]
       ELSE IF parts.update # <<>> /\ ~accepted
       THEN [status |-> "Internal", db |-> inserted]
       ELSE [status |-> "Ok",
             db |-> [inserted EXCEPT !.batch_bsos =
                        UpdateRows(@, user, cid, batch.id, parts.update)]]

(* the INSERT INTO batches with expiry = timestamp *)
InsertBatch_NoLifetime(D, user, cid, id, timestamp) ==
    [D EXCEPT !.batches = Put(@, <<user, cid, id>>, [expiry |-> timestamp])]

(* create_async *)
InsertBatch(D, user, cid, id, timestamp) ==
    [D EXCEPT !.batches = Put(@, <<user, cid, id>>, [expiry |-> timestamp + BATCH_LIFETIME])]

create_async(D, user, cid, bsos, id, timestamp, accepted) ==
    LET touched == pretouch_collection_async(D, user, cid)
        new_batch == [id |-> id, size |-> check_quota(touched, user, cid)]
        withBatch == InsertBatch(touched, user, cid, id, timestamp)
    IN do_append_async(withBatch, user, cid, new_batch, bsos, accepted)

(* append_async *)
SeedSize(current_size, size) ==
    IF current_size # None THEN Some(current_size[1] + UnwrapOr(size, 0)) ELSE size

append_async(D, user, cid, id, size, bsos, ts, accepted) ==
    LET batch == [id |-> id, size |-> SeedSize(check_quota(D, user, cid), size)]
    IN IF ~validate_async(D, user, cid, id, ts)
       THEN [status |-> "BatchNotFound", db |-> D]
       ELSE do_append_async(D, user, cid, batch, bsos, accepted)

----------------------------------------------------------------------------
(* commit_async, one definition per statement.  Each takes the committed    *)
(* tables D and the transaction's uncommitted tables W.                     *)

Staged(W, user, cid, id) ==
    {k \in DOMAIN W.batch_bsos : k[1] = user /\ k[2] = cid /\ k[3] = id}

HasLive(W, user, cid, bso_id, ts) ==
    /\ <<user, cid, bso_id>> \in DOMAIN W.bsos
    /\ W.bsos[<<user, cid, bso_id>>].expiry > ts

(* batch_commit_update.sql: overlay the staged non-NULL fields on the live  *)
(* rows the batch names                                                     *)
UpdatedBso(old, s, T) ==
    [sortindex |-> IF s.sortindex # None THEN s.sortindex ELSE old.sortindex,
     payload |-> IF s.payload # None THEN s.payload[1] ELSE old.payload,
     modified |-> T,
     expiry |-> IF s.ttl # None THEN T + s.ttl[1] * MsPerSecond ELSE old.expiry]

batch_commit_update(W, user, cid, id, T, ts) ==
    [W EXCEPT !.bsos =
        [k \in DOMAIN @ |->
            IF /\ k[1] = user /\ k[2] = cid
               /\ <<user, cid, id, k[3]>> \in DOMAIN W.batch_bsos
               /\ HasLive(W, user, cid, k[3], ts)
            THEN UpdatedBso(@[k], W.batch_bsos[<<user, cid, id, k[3]>>], T)
            ELSE @[k]]]

(* batch_commit_insert.sql: the staged rows with no live counterpart *)
InsertedBso(s, T) ==
    [sortindex |-> s.sortindex,
     payload |-> UnwrapOr(s.payload, ""),
     modified |-> T,
     expiry |-> T + UnwrapOr(s.ttl, DEFAULT_BSO_TTL) * MsPerSecond]

batch_commit_insert(W, user, cid, id, T, ts) ==
    LET fresh == {k \in Staged(W, user, cid, id) : ~HasLive(W, user, cid, k[4], ts)}
    IN [W EXCEPT !.bsos =
          [x \in (DOMAIN @) \cup {<<user, cid, k[4]>> : k \in fresh} |->
              IF <<user, cid, id, x[3]>> \in fresh /\ x[1] = user /\ x[2] = cid
              THEN InsertedBso(W.batch_bsos[<<user, cid, id, x[3]>>], T)
              ELSE @[x]]]

(* commit_async returning the clock's reading in place of the stamp         *)
(* update_collection_async returns                                          *)
CommitStamp_Clock(D, W, user, cid, ts) ==
    [timestamp |-> ts, db |-> update_collection_async(D, user, cid, ts).db]

(* commit_async writing the clock's reading into the collection's row *)
CommitStamp_Unbumped(D, W, user, cid, ts) ==
    [timestamp |-> ts,
     db |-> [update_collection_async(D, user, cid, ts).db
                EXCEPT !.user_collections[<<user, cid>>].modified = ts]]

CommitStamp(D, W, user, cid, ts) ==
    update_collection_async(D, user, cid, ts)

CommitUpdateStep(D, W, c) ==
    [db |-> D, work |-> batch_commit_update(W, c.user, c.cid, c.batch, c.timestamp, now)]

(* the insert phase stamping its rows with the clock's reading *)
CommitInsertStep_ClockStamp(D, W, c) ==
    [db |-> D, work |-> batch_commit_insert(W, c.user, c.cid, c.batch, now, now)]

(* the insert phase run outside the transaction *)
CommitInsertStep_Autocommit(D, W, c) ==
    [db |-> batch_commit_insert(D, c.user, c.cid, c.batch, c.timestamp, now),
     work |-> batch_commit_insert(W, c.user, c.cid, c.batch, c.timestamp, now)]

CommitInsertStep(D, W, c) ==
    [db |-> D, work |-> batch_commit_insert(W, c.user, c.cid, c.batch, c.timestamp, now)]

(* commit_async without its call of delete_async *)
CommitDeleteStep_Skipped(D, W, c) ==
    [db |-> D, work |-> W]

CommitDeleteStep(D, W, c) ==
    [db |-> D, work |-> delete_async(W, c.user, c.cid, c.batch)]

CommitQuotaStep(D, W, c) ==
    [db |-> D, work |-> update_user_collection_quotas(W, c.user, c.cid, now)]

(* The transaction an operation runs in: its writes reach the committed     *)
(* tables when it commits, and are dropped when it is aborted.              *)
TxnCommit(D, W) == W
TxnRollback(D, W) == D

----------------------------------------------------------------------------
(* History kept for the properties: what the callers passed *)

NoFields == [sortindex |-> None, payload |-> None, ttl |-> None]

Overlay(old, bso) ==
    [sortindex |-> IF bso.sortindex # None THEN bso.sortindex ELSE old.sortindex,
     payload |-> IF bso.payload # None THEN bso.payload ELSE old.payload,
     ttl |-> IF bso.ttl # None THEN bso.ttl ELSE old.ttl]

RECURSIVE LaterWins(_, _)
LaterWins(m, bsos) ==
    IF bsos = <<>> THEN m
    ELSE LET bso == Head(bsos)
             old == IF bso.id \in DOMAIN m THEN m[bso.id] ELSE NoFields
         IN LaterWins(Put(m, bso.id, Overlay(old, bso)), Tail(bsos))

RECURSIVE Incoming(_)
Incoming(bsos) ==
    IF bsos = <<>> THEN 0
    ELSE (IF Head(bsos).payload = None THEN 0 ELSE Len(Head(bsos).payload[1]))
         + Incoming(Tail(bsos))

NotCreated == [user |-> "", cid |-> 0, at |-> 0]

Idle == [pc |-> "idle"]

(* no call is waiting for its caller *)
NoResult == [op |-> "none"]

Res(op, status, user, cid, batch) ==
    [op |-> op, status |-> status, user |-> user, cid |-> cid, batch |-> batch,
     modified |-> 0, exists |-> FALSE, size |-> None, incoming |-> 0]
\* size: batch.size as append_async hands it to do_append_async; incoming: the
\* bytes of the payloads passed

(* The collections every database starts with *)
ReservedCollections ==
    {[id |-> 1, name |-> "clients"], [id |-> 2, name |-> "crypto"],
     [id |-> 3, name |-> "forms"], [id |-> 4, name |-> "history"],
     [id |-> 5, name |-> "keys"], [id |-> 6, name |-> "meta"],
     [id |-> 7, name |-> "bookmarks"], [id |-> 8, name |-> "prefs"],
     [id |-> 9, name |-> "tabs"], [id |-> 10, name |-> "passwords"],
     [id |-> 11, name |-> "addons"], [id |-> 12, name |-> "addresses"],
     [id |-> 13, name |-> "creditcards"]}

(* the writers that call the collection registry, and a writer not in a call *)
Writers == {"w1", "w2"}

NoCall == [pc |-> "idle", op |-> "none", name |-> "", status |-> "", id |-> 0,
           recovered |-> FALSE]

----------------------------------------------------------------------------
(* The state machine *)

Init ==
    /\ now = 1
    /\ quota_enabled \in BOOLEAN
    /\ db = EmptyDb
    /\ txn = Idle
    /\ next_batch = 1
    /\ created = [b \in BatchIds |-> NotCreated]
    /\ appended = [b \in BatchIds |-> EmptyTable]
    /\ writes = 0
    /\ result = NoResult
    /\ collections = ReservedCollections
    /\ callers = [w \in Writers |-> NoCall]

(* no operation is running and the last one has returned *)
Ready == txn.pc = "idle" /\ result = NoResult

Tick ==
    /\ Ready
    /\ now < MaxTime
    /\ now' = now + 1
    /\ UNCHANGED <<collections, callers>>
    /\ UNCHANGED <<quota_enabled, db, txn, next_batch, created, appended, writes, result>>

(* the caller takes the result of the call *)
Return ==
    /\ result # NoResult
    /\ result' = NoResult
    /\ UNCHANGED <<collections, callers>>
    /\ UNCHANGED <<now, quota_enabled, db, txn, next_batch, created, appended, writes>>

(* a call that changes the tables is counted, up to MaxWrites *)
Counted(D) ==
    /\ D # db => writes < MaxWrites
    /\ writes' = IF D # db THEN writes + 1 ELSE writes

(* An operation that returns Err: its caller either rolls the transaction   *)
(* back or lets the writes made before the error stand.                     *)
Outcomes(D, r) ==
    IF r.status = "Ok" THEN {TxnCommit(D, r.db)} ELSE {TxnRollback(D, r.db), TxnCommit(D, r.db)}

CreateBatch(user, cid, bsos) ==
    /\ Ready
    /\ next_batch <= MaxBatches
    /\ \E r \in {create_async(db, user, cid, bsos, next_batch, now, a) : a \in BOOLEAN} :
          /\ db' \in Outcomes(db, r)
          /\ Counted(db')
          /\ result' = Res("create", r.status, user, cid, next_batch)
          /\ appended' = IF r.status = "Ok"
                         THEN [appended EXCEPT ![next_batch] = LaterWins(@, bsos)]
                         ELSE appended
    /\ created' = [created EXCEPT ![next_batch] = [user |-> user, cid |-> cid, at |-> now]]
    /\ next_batch' = next_batch + 1
    /\ UNCHANGED <<collections, callers>>
    /\ UNCHANGED <<now, quota_enabled, txn>>

AppendToBatch(user, cid, id, size, bsos) ==
    /\ Ready
    /\ \E r \in {append_async(db, user, cid, id, size, bsos, now, a) : a \in BOOLEAN} :
          /\ db' \in Outcomes(db, r)
          /\ Counted(db')
          /\ result' = IF r.status = "BatchNotFound"
                        THEN Res("append", r.status, user, cid, id)
                        ELSE [Res("append", r.status, user, cid, id)
                                EXCEPT !.incoming = Incoming(bsos),
                                       !.size = SeedSize(check_quota(db, user, cid), size)]
          /\ appended' = IF r.status = "Ok"
                         THEN [appended EXCEPT ![id] = LaterWins(@, bsos)]
                         ELSE appended
    /\ UNCHANGED <<collections, callers>>
    /\ UNCHANGED <<now, quota_enabled, txn, next_batch, created>>

ValidateBatch(user, cid, id) ==
    /\ Ready
    /\ result' = [Res("validate", "Ok", user, cid, id)
                    EXCEPT !.exists = validate_async(db, user, cid, id, now)]
    /\ UNCHANGED <<collections, callers>>
    /\ UNCHANGED <<now, quota_enabled, db, txn, next_batch, created, appended, writes>>

DeleteBatch(user, cid, id) ==
    /\ Ready
    /\ db' = TxnCommit(db, delete_async(db, user, cid, id))
    /\ Counted(db')
    /\ result' = Res("delete", "Ok", user, cid, id)
    /\ UNCHANGED <<collections, callers>>
    /\ UNCHANGED <<now, quota_enabled, txn, next_batch, created, appended>>

CommitBegin(user, cid, id) ==
    /\ Ready
    /\ writes < MaxWrites
    /\ writes' = writes + 1
    /\ LET r == CommitStamp(db, db, user, cid, now)
       IN txn' = [pc |-> "stamped", user |-> user, cid |-> cid, batch |-> id,
                  timestamp |-> r.timestamp, work |-> r.db]
    /\ UNCHANGED <<collections, callers>>
    /\ UNCHANGED <<now, quota_enabled, db, next_batch, created, appended, result>>

CommitStep(from, to, r) ==
    /\ txn.pc = from
    /\ txn' = [txn EXCEPT !.pc = to, !.work = r.work]
    /\ db' = r.db
    /\ UNCHANGED <<collections, callers>>
    /\ UNCHANGED <<now, quota_enabled, next_batch, created, appended, writes, result>>

CommitUpdate ==
    txn.pc = "stamped" /\ CommitStep("stamped", "updated", CommitUpdateStep(db, txn.work, txn))

CommitInsert ==
    txn.pc = "updated" /\ CommitStep("updated", "inserted", CommitInsertStep(db, txn.work, txn))

CommitDelete ==
    txn.pc = "inserted" /\ CommitStep("inserted", "deleted", CommitDeleteStep(db, txn.work, txn))

CommitQuota ==
    txn.pc = "deleted" /\ CommitStep("deleted", "counted", CommitQuotaStep(db, txn.work, txn))

CommitReturn ==
    /\ txn.pc = "counted"
    /\ db' = TxnCommit(db, txn.work)
    /\ txn' = Idle
    /\ result' = [Res("commit", "Ok", txn.user, txn.cid, txn.batch)
                    EXCEPT !.modified = txn.timestamp]
    /\ UNCHANGED <<collections, callers>>
    /\ UNCHANGED <<now, quota_enabled, next_batch, created, appended, writes>>

(* the commit is cancelled, or the process dies, before it returns *)
CommitAbort ==
    /\ txn.pc # "idle"
    /\ db' = TxnRollback(db, txn.work)
    /\ txn' = Idle
    /\ result' = Res("commit", "Aborted", txn.user, txn.cid, txn.batch)
    /\ UNCHANGED <<collections, callers>>
    /\ UNCHANGED <<now, quota_enabled, next_batch, created, appended, writes>>

Next ==
    \/ Tick
    \/ Return
    \/ \E user \in Creators, cid \in Colls, bsos \in BsoLists : CreateBatch(user, cid, bsos)
    \/ \E user \in Users, cid \in Colls, id \in BatchIds, size \in BatchSizes,
          bsos \in BsoLists : AppendToBatch(user, cid, id, size, bsos)
    \/ \E user \in Users, cid \in Colls, id \in BatchIds : ValidateBatch(user, cid, id)
    \/ \E user \in Users, cid \in Colls, id \in BatchIds : DeleteBatch(user, cid, id)
    \/ \E user \in Committers, cid \in Colls, id \in BatchIds : CommitBegin(user, cid, id)
    \/ CommitUpdate
    \/ CommitInsert
    \/ CommitDelete
    \/ CommitQuota
    \/ CommitReturn
    \/ CommitAbort

Spec == Init /\ [][Next]_vars

----------------------------------------------------------------------------
(* The record store of the MySQL backend, as src/src/db/mysql/test.rs       *)
(* calls it and asserts on it.  The functions themselves are not in the     *)
(* repository's src/; what the tests assert is taken from the tests, the    *)
(* rest from spec.md 4.2.                                                   *)

(* the params::PutBso the tests build with pbso: all fields, payload only,  *)
(* sortindex only, ttl only, and a second id                                *)
PutShapes ==
    {[id |-> "b1", payload |-> Some("a"), sortindex |-> Some(7), ttl |-> Some(2)],
     [id |-> "b1", payload |-> Some("bb"), sortindex |-> None, ttl |-> None],
     [id |-> "b1", payload |-> None, sortindex |-> Some(8), ttl |-> None],
     [id |-> "b1", payload |-> None, sortindex |-> None, ttl |-> Some(3)],
     [id |-> "b2", payload |-> Some("a"), sortindex |-> None, ttl |-> None]}

pbso(user_id, cid, shape, modified) ==
    [user_id |-> user_id, collection_id |-> cid, id |-> shape.id,
     payload |-> shape.payload, sortindex |-> shape.sortindex, ttl |-> shape.ttl,
     modified |-> modified]

(* touch_collection: upsert with modified = max(existing, input) *)
touch_collection(D, user, cid, modified) ==
    LET row == IF <<user, cid>> \in DOMAIN D.user_collections
               THEN [D.user_collections[<<user, cid>>]
                        EXCEPT !.modified = Max(@, modified)]
               ELSE [modified |-> modified, count |-> None, total_bytes |-> None]
    IN [D EXCEPT !.user_collections = Put(@, <<user, cid>>, row)]

(* put_bso_sync of a record that does not exist *)
NewBso(bso) ==
    [sortindex |-> bso.sortindex,
     payload |-> UnwrapOr(bso.payload, ""),
     modified |-> bso.modified,
     expiry |-> bso.modified + UnwrapOr(bso.ttl, DEFAULT_BSO_TTL)]

(* put_bso_sync of a record that exists, field by field *)
PutPayload(old, bso) == IF bso.payload # None THEN bso.payload[1] ELSE old.payload

PutSortindex(old, bso) == IF bso.sortindex # None THEN bso.sortindex ELSE old.sortindex

(* put_bso_sync taking the incoming modified only when a payload is passed *)
PutModified_PayloadOnly(old, bso) ==
    IF bso.payload # None THEN bso.modified ELSE old.modified

(* put_bso_sync never writing the modified of an existing record *)
PutModified_Stored(old, bso) == old.modified

PutModified(old, bso) ==
    IF bso.payload # None \/ bso.sortindex # None THEN bso.modified ELSE old.modified

(* put_bso_sync renewing the expiry on every put *)
PutExpiry_Always(old, bso) ==
    bso.modified + UnwrapOr(bso.ttl, DEFAULT_BSO_TTL)

PutExpiry(old, bso) ==
    IF bso.ttl # None THEN bso.modified + bso.ttl[1] ELSE old.expiry

put_bso_sync(D, bso) ==
    LET k == <<bso.user_id, bso.collection_id, bso.id>>
        row == IF k \in DOMAIN D.bsos
               THEN [sortindex |-> PutSortindex(D.bsos[k], bso),
                     payload |-> PutPayload(D.bsos[k], bso),
                     modified |-> PutModified(D.bsos[k], bso),
                     expiry |-> PutExpiry(D.bsos[k], bso)]
               ELSE NewBso(bso)
    IN touch_collection([D EXCEPT !.bsos = Put(@, k, row)],
                        bso.user_id, bso.collection_id, bso.modified)

(* get_bso_sync: the record, unless there is none or it has expired *)
get_bso_sync(D, user, cid, id, ts) ==
    IF <<user, cid, id>> \in DOMAIN D.bsos /\ D.bsos[<<user, cid, id>>].expiry > ts
    THEN Some(D.bsos[<<user, cid, id>>])
    ELSE None

(* delete_bsos_sync: the named records of the collection removed.  touch:   *)
(* whether the collection is stamped with the time of the delete or its     *)
(* modified only read                                                       *)
(* delete_bsos_sync removing the ids from every collection of the user *)
DeletedKeys_AnyCollection(D, user, cid, ids) ==
    {k \in DOMAIN D.bsos : k[1] = user /\ k[3] \in ids}

(* the rows delete_bsos_sync removes *)
DeletedKeys(D, user, cid, ids) ==
    {k \in DOMAIN D.bsos : k[1] = user /\ k[2] = cid /\ k[3] \in ids}

delete_bsos_sync(D, user, cid, ids, ts, touch) ==
    LET removed == [D EXCEPT !.bsos = Drop(@, DeletedKeys(D, user, cid, ids))]
    IN IF touch THEN touch_collection(removed, user, cid, ts) ELSE removed

(* a collection without a row, or with the row a create left for a         *)
(* collection nothing was committed to                                      *)
Unstamped(D, user, cid) ==
    \/ <<user, cid>> \notin DOMAIN D.user_collections
    \/ D.user_collections[<<user, cid>>].modified = PRETOUCH_TS

(* the records of a collection *)
BsosOf(D, user, cid) == {k \in DOMAIN D.bsos : k[1] = user /\ k[2] = cid}

(* get_collection_modified_sync: the modified of the row, CollectionNotFound *)
(* when the user has none for the collection                                *)
get_collection_modified_sync(D, user, cid) ==
    IF Unstamped(D, user, cid) THEN [status |-> "CollectionNotFound"]
    ELSE [status |-> "Ok", modified |-> D.user_collections[<<user, cid>>].modified]

(* delete_collection_sync leaving the collection's row behind *)
delete_collection_sync_RowKept(D, user, cid, ts) ==
    LET gone == [D EXCEPT !.bsos = Drop(@, BsosOf(D, user, cid))]
    IN [db |-> gone, modified |-> get_storage_modified_sync(gone, user, ts)]

(* delete_collection_sync: the records of the collection and its row        *)
(* removed; returns what get_storage_modified_sync says afterwards          *)
delete_collection_sync(D, user, cid, ts) ==
    LET gone == [D EXCEPT !.bsos = Drop(@, BsosOf(D, user, cid)),
                          !.user_collections = Drop(@, {<<user, cid>>})]
    IN [db |-> gone, modified |-> get_storage_modified_sync(gone, user, ts)]

StoreUsers == {"u1"}
BsoIds == {"b1", "b2"}

StoreInit ==
    /\ now = 1
    /\ quota_enabled = FALSE
    /\ db = EmptyDb
    /\ txn = Idle
    /\ next_batch = 1
    /\ created = [b \in BatchIds |-> NotCreated]
    /\ appended = [b \in BatchIds |-> EmptyTable]
    /\ writes = 0
    /\ result = NoResult
    /\ collections = ReservedCollections
    /\ callers = [w \in Writers |-> NoCall]

PutBso(user, cid, shape, modified) ==
    /\ Ready
    /\ db' = put_bso_sync(db, pbso(user, cid, shape, modified))
    /\ Counted(db')
    /\ result' = [op |-> "put", user |-> user, cid |-> cid,
                  bso |-> pbso(user, cid, shape, modified),
                  existed |-> <<user, cid, shape.id>> \in DOMAIN db.bsos]
    /\ UNCHANGED <<collections, callers>>
    /\ UNCHANGED <<now, quota_enabled, txn, next_batch, created, appended>>

GetBso(user, cid, id) ==
    /\ Ready
    /\ result' = [op |-> "get_bso", user |-> user, cid |-> cid, id |-> id,
                  found |-> get_bso_sync(db, user, cid, id, now)]
    /\ UNCHANGED <<collections, callers>>
    /\ UNCHANGED <<now, quota_enabled, db, txn, next_batch, created, appended, writes>>

DeleteBsos(user, cid, ids) ==
    /\ Ready
    /\ \E touch \in BOOLEAN : db' = delete_bsos_sync(db, user, cid, ids, now, touch)
    /\ Counted(db')
    /\ result' = [op |-> "delete_bsos", user |-> user, cid |-> cid, ids |-> ids,
                  removed |-> DeletedKeys(db, user, cid, ids)]
    /\ UNCHANGED <<collections, callers>>
    /\ UNCHANGED <<now, quota_enabled, txn, next_batch, created, appended>>

DeleteCollection(user, cid) ==
    /\ Ready
    /\ db' = delete_collection_sync(db, user, cid, now).db
    /\ Counted(db')
    /\ result' = [op |-> "delete_collection", user |-> user, cid |-> cid,
                  removed |-> BsosOf(db, user, cid),
                  modified |-> delete_collection_sync(db, user, cid, now).modified]
    /\ UNCHANGED <<collections, callers>>
    /\ UNCHANGED <<now, quota_enabled, txn, next_batch, created, appended>>

TouchCollection(user, cid, modified) ==
    /\ Ready
    /\ db' = touch_collection(db, user, cid, modified)
    /\ Counted(db')
    /\ result' = [op |-> "touch", user |-> user, cid |-> cid, modified |-> modified]
    /\ UNCHANGED <<collections, callers>>
    /\ UNCHANGED <<now, quota_enabled, txn, next_batch, created, appended>>

StoreNext ==
    \/ Tick
    \/ Return
    \/ \E user \in StoreUsers, cid \in Colls, shape \in PutShapes, modified \in 1..now :
          PutBso(user, cid, shape, modified)
    \/ \E shape \in {x \in PutShapes : x.id = "b1" /\ x.sortindex = None /\ x.ttl = None} :
          PutBso("u2", 1, shape, now)
    \/ \E user \in StoreUsers, cid \in Colls, id \in BsoIds : GetBso(user, cid, id)
    \/ \E user \in StoreUsers, cid \in Colls, ids \in (SUBSET BsoIds) \ {{}} :
          DeleteBsos(user, cid, ids)
    \/ \E user \in StoreUsers, cid \in Colls : DeleteCollection(user, cid)
    \/ \E user \in StoreUsers, cid \in Colls, modified \in 1..(now + 1) :
          TouchCollection(user, cid, modified)
    \/ \E user \in StoreUsers, bsos \in BsoLists : CreateBatch(user, 1, bsos)
    \/ \E user \in StoreUsers, id \in BatchIds : CommitBegin(user, 1, id)
    \/ CommitUpdate
    \/ CommitInsert
    \/ CommitDelete
    \/ CommitQuota
    \/ CommitReturn

StoreSpec == StoreInit /\ [][StoreNext]_vars

----------------------------------------------------------------------------
(* get_bsos_sync, as the tests of src/src/db/mysql/test.rs call it:         *)
(* get_bsos_sync(uid, cid, &ids, MAX_TIMESTAMP, newer, sort, limit, offset) *)

(* the records get_bsos_sync selects from: those of the collection not      *)
(* expired at ts, modified after newer and before older, and named by ids   *)
(* when ids is not empty                                                    *)
Matching_Inclusive(D, user, cid, ids, older, newer, ts) ==
    {k \in BsosOf(D, user, cid) :
        /\ D.bsos[k].expiry > ts
        /\ D.bsos[k].modified >= newer
        /\ D.bsos[k].modified < older
        /\ ids = {} \/ k[3] \in ids}

Matching(D, user, cid, ids, older, newer, ts) ==
    {k \in BsosOf(D, user, cid) :
        /\ D.bsos[k].expiry > ts
        /\ D.bsos[k].modified > newer
        /\ D.bsos[k].modified < older
        /\ ids = {} \/ k[3] \in ids}

(* Sorting::Index ordering by the sortindex alone *)
Precedes_IndexOnly(D, sort, a, b) ==
    LET ra == D.bsos[a]
        rb == D.bsos[b]
    IN CASE sort = "Newest" -> ra.modified > rb.modified
         [] sort = "Oldest" -> ra.modified < rb.modified
         [] sort = "Index" ->
               \/ ra.sortindex # None /\ rb.sortindex = None
               \/ ra.sortindex # None /\ rb.sortindex # None
                     /\ ra.sortindex[1] > rb.sortindex[1]

(* Sorting: whether record a comes before record b *)
Precedes(D, sort, a, b) ==
    LET ra == D.bsos[a]
        rb == D.bsos[b]
    IN CASE sort = "Newest" -> ra.modified > rb.modified
         [] sort = "Oldest" -> ra.modified < rb.modified
         [] sort = "Index" ->
               \/ ra.sortindex # None /\ rb.sortindex = None
               \/ ra.sortindex # None /\ rb.sortindex # None
                     /\ ra.sortindex[1] > rb.sortindex[1]
               \/ ra.sortindex = rb.sortindex /\ ra.modified > rb.modified

RECURSIVE SortBy(_, _, _)
SortBy(D, S, sort) ==
    IF S = {} THEN <<>>
    ELSE LET first == CHOOSE a \in S : \A b \in S \ {a} : ~Precedes(D, sort, b, a)
         IN <<first>> \o SortBy(D, S \ {first}, sort)

(* limit = 0: no rows, and whether there are any *)
ProbeResult_NoMore(rows) == [bsos |-> <<>>, more |-> FALSE, offset |-> 0]

ProbeResult(rows) == [bsos |-> <<>>, more |-> Len(rows) > 0, offset |-> 0]

(* limit < 0: every row *)
AllResult(rows) == [bsos |-> rows, more |-> FALSE, offset |-> 0]

(* limit > 0: the rows from offset on, limit of them at most *)
PageResult_MoreAtEnd(rows, limit, offset) ==
    LET page == SubSeq(rows, offset + 1, Min(offset + limit, Len(rows)))
        more == Len(rows) >= offset + limit
    IN [bsos |-> page, more |-> more,
        offset |-> IF more THEN offset + Len(page) ELSE 0]

PageResult(rows, limit, offset) ==
    LET page == SubSeq(rows, offset + 1, Min(offset + limit, Len(rows)))
        more == Len(rows) > offset + limit
    IN [bsos |-> page, more |-> more,
        offset |-> IF more THEN offset + Len(page) ELSE 0]

get_bsos_sync(D, user, cid, ids, older, newer, sort, limit, offset, ts) ==
    LET rows == SortBy(D, Matching(D, user, cid, ids, older, newer, ts), sort)
    IN IF limit = 0 THEN ProbeResult(rows)
       ELSE IF limit < 0 THEN AllResult(rows)
       ELSE PageResult(rows, limit, offset)

(* The stores the queries run on: up to MaxRecords records b0, b1, ... put  *)
(* into one collection, each with a modified of its own, as the tests'      *)
(* loops put them                                                           *)
QueryIds == <<"b0", "b1", "b2", "b3">>

QueryPuts ==
    UNION {{f \in [1..n -> [modified : 1..MaxTime,
                            sortindex : {None, Some(1), Some(2)},
                            ttl : {0, DEFAULT_BSO_TTL}]] :
               \A i, j \in 1..n : i # j => f[i].modified # f[j].modified}
           : n \in 0..MaxRecords}

RECURSIVE PutAll(_, _)
PutAll(f, n) ==
    IF n = 0 THEN EmptyDb
    ELSE put_bso_sync(PutAll(f, n - 1),
                      [user_id |-> "u1", collection_id |-> 1, id |-> QueryIds[n],
                       payload |-> Some("a"), sortindex |-> f[n].sortindex,
                       ttl |-> Some(f[n].ttl), modified |-> f[n].modified])

Sortings == {"Newest", "Oldest", "Index"}

(* limit and offset as the tests pass them: 0 and -1 from the start, a      *)
(* positive limit from any offset                                           *)
LimitOffsets ==
    {<<0, 0>>, <<0 - 1, 0>>} \cup ((1..2) \X (0..MaxRecords))

QueryInit ==
    /\ now = MaxTime
    /\ quota_enabled = FALSE
    /\ \E f \in QueryPuts : db = PutAll(f, Len(f))
    /\ txn = Idle
    /\ next_batch = 1
    /\ created = [b \in BatchIds |-> NotCreated]
    /\ appended = [b \in BatchIds |-> EmptyTable]
    /\ writes = 0
    /\ result = NoResult
    /\ collections = ReservedCollections
    /\ callers = [w \in Writers |-> NoCall]

(* a first call of get_bsos_sync *)
GetBsos(user, cid, ids, older, newer, sort, limit, offset) ==
    /\ Ready
    /\ LET got == get_bsos_sync(db, user, cid, ids, older, newer, sort, limit, offset, now)
       IN result' = [op |-> "get_bsos", user |-> user, cid |-> cid, ids |-> ids,
                     older |-> older, newer |-> newer, sort |-> sort,
                     limit |-> limit, asked |-> offset, from |-> offset,
                     bsos |-> got.bsos, more |-> got.more, offset |-> got.offset,
                     seen |-> got.bsos]
    /\ UNCHANGED <<collections, callers>>
    /\ UNCHANGED <<now, quota_enabled, db, txn, next_batch, created, appended, writes>>

(* the same call again, from the offset the last one returned *)
NextPage ==
    /\ result.op = "get_bsos"
    /\ result.more
    /\ result.limit > 0
    /\ LET got == get_bsos_sync(db, result.user, result.cid, result.ids, result.older,
                                result.newer, result.sort, result.limit, result.offset, now)
       IN result' = [result EXCEPT !.asked = result.offset,
                                   !.bsos = got.bsos, !.more = got.more,
                                   !.offset = got.offset,
                                   !.seen = result.seen \o got.bsos]
    /\ UNCHANGED <<collections, callers>>
    /\ UNCHANGED <<now, quota_enabled, db, txn, next_batch, created, appended, writes>>

QueryNext ==
    \/ Return
    \/ \E ids \in {{}, {"b0", "b2"}}, newer \in 0..(MaxTime - 1), sort \in Sortings,
          lo \in LimitOffsets :
          GetBsos("u1", 1, ids, MAX_TIMESTAMP, newer, sort, lo[1], lo[2])
    \/ NextPage
    \/ \E id \in {"b0", "b1"} : GetBso("u1", 1, id)

QuerySpec == QueryInit /\ [][QueryNext]_vars

----------------------------------------------------------------------------
(* The collection registry: get_collection_id and create_collection, as     *)
(* src/src/db/mysql/test.rs calls them and spec.md 4.1 describes them       *)

(* names the callers create, and names they look up *)
CustomNames == {"col1", "NewCollection"}

LookupNames == CustomNames \cup {"bookmarks"}

get_collection_id(C, name) ==
    IF \E r \in C : r.name = name
    THEN [status |-> "Ok", id |-> (CHOOSE r \in C : r.name = name).id]
    ELSE [status |-> "CollectionNotFound", id |-> 0]

(* the id the table gives to a new row, counting on from the reserved ids *)
NextCollectionId_FromReserved(C) ==
    1 + (CHOOSE r \in C : \A x \in C : x.id <= r.id).id

(* the id the table gives to a new row *)
NextCollectionId(C) ==
    Max(FirstCustomId, 1 + (CHOOSE r \in C : \A x \in C : x.id <= r.id).id)

(* the INSERT of create_collection on a table without the unique name *)
InsertCollection_NoUniqueName(C, name) ==
    [status |-> "Ok", id |-> NextCollectionId(C),
     collections |-> C \cup {[id |-> NextCollectionId(C), name |-> name]}]

(* the INSERT of create_collection: refused with Integrity when the name is *)
(* taken                                                                    *)
InsertCollection(C, name) ==
    IF \E r \in C : r.name = name
    THEN [status |-> "Integrity", id |-> 0, collections |-> C]
    ELSE [status |-> "Ok", id |-> NextCollectionId(C),
          collections |-> C \cup {[id |-> NextCollectionId(C), name |-> name]}]

(* create_collection, first step: the insert *)
CreateCollection(w, name) ==
    /\ callers[w].pc = "idle"
    /\ LET r == InsertCollection(collections, name)
       IN /\ collections' = r.collections
          /\ callers' = [callers EXCEPT ![w] =
                [pc |-> IF r.status = "Ok" THEN "done" ELSE "retry",
                 op |-> "create", name |-> name, status |-> r.status, id |-> r.id,
                 recovered |-> FALSE]]
    /\ UNCHANGED <<now, quota_enabled, db, txn, next_batch, created, appended, writes, result>>

(* create_collection, after an Integrity error: the name is looked up *)
CreateCollectionRetry(w) ==
    /\ callers[w].pc = "retry"
    /\ LET g == get_collection_id(collections, callers[w].name)
       IN callers' = [callers EXCEPT ![w] =
                [@ EXCEPT !.pc = "done", !.status = g.status, !.id = g.id,
                          !.recovered = TRUE]]
    /\ UNCHANGED <<collections>>
    /\ UNCHANGED <<now, quota_enabled, db, txn, next_batch, created, appended, writes, result>>

GetCollectionId(w, name) ==
    /\ callers[w].pc = "idle"
    /\ LET g == get_collection_id(collections, name)
       IN callers' = [callers EXCEPT ![w] =
                [pc |-> "done", op |-> "get_collection_id", name |-> name,
                 status |-> g.status, id |-> g.id, recovered |-> FALSE]]
    /\ UNCHANGED <<collections>>
    /\ UNCHANGED <<now, quota_enabled, db, txn, next_batch, created, appended, writes, result>>

(* the writer takes what its call returned *)
CallReturn(w) ==
    /\ callers[w].pc = "done"
    /\ callers' = [callers EXCEPT ![w] = NoCall]
    /\ UNCHANGED <<collections>>
    /\ UNCHANGED <<now, quota_enabled, db, txn, next_batch, created, appended, writes, result>>

RegistryInit ==
    /\ now = 1
    /\ quota_enabled = FALSE
    /\ db = EmptyDb
    /\ txn = Idle
    /\ next_batch = 1
    /\ created = [b \in BatchIds |-> NotCreated]
    /\ appended = [b \in BatchIds |-> EmptyTable]
    /\ writes = 0
    /\ result = NoResult
    /\ collections = ReservedCollections
    /\ callers = [w \in Writers |-> NoCall]

RegistryNext ==
    \/ \E w \in Writers, name \in CustomNames : CreateCollection(w, name)
    \/ \E w \in Writers : CreateCollectionRetry(w)
    \/ \E w \in Writers, name \in LookupNames : GetCollectionId(w, name)
    \/ \E w \in Writers : CallReturn(w)

RegistrySpec == RegistryInit /\ [][RegistryNext]_vars

----------------------------------------------------------------------------
(* Properties *)

(* the steps the properties speak of *)
CommitOk == txn.pc = "counted" /\ result'.op = "commit" /\ result'.status = "Ok"
AppendStep == result = NoResult /\ result'.op = "append"
DeleteStep == result = NoResult /\ result'.op = "delete"

(* the batch a result, or the commit in flight, is about *)
KeyOf(r) == <<r.user, r.cid, r.batch>>

(* whether the tables hold an unexpired row of the batch *)
Live(D, k, ts) == k \in DOMAIN D.batches /\ D.batches[k].expiry > ts

(* C1: after a successful commit of a live batch, every BSO id passed to    *)
(* its create and appends is a live BSO stamped with the commit's           *)
(* timestamp, each field that was supplied holding the value supplied       *)
(* last (an omitted field keeps the earlier staged value), and no other     *)
(* BSO of the collection is added or changed.                               *)
C1_RoundTrip ==
    [][(CommitOk /\ Live(db, KeyOf(result'), now)
           /\ created[result'.batch].user = result'.user
           /\ created[result'.batch].cid = result'.cid)
        => LET u == result'.user
               c == result'.cid
               m == appended[result'.batch]
           IN /\ \A id \in DOMAIN m :
                    /\ <<u, c, id>> \in DOMAIN db'.bsos
                    /\ db'.bsos[<<u, c, id>>].modified = result'.modified
                    /\ m[id].payload # None
                         => db'.bsos[<<u, c, id>>].payload = m[id].payload[1]
                    /\ m[id].sortindex # None
                         => db'.bsos[<<u, c, id>>].sortindex = m[id].sortindex
              /\ \A x \in DOMAIN db'.bsos :
                    (x[1] = u /\ x[2] = c /\ x[3] \notin DOMAIN m)
                        => (x \in DOMAIN db.bsos /\ db'.bsos[x] = db.bsos[x])]_vars

(* C2: from the start of a commit until it returns, and when it is          *)
(* aborted at any point of its sequence, the committed tables are what      *)
(* they were before the commit: the live BSOs unchanged, the batch and      *)
(* its staging rows present.                                                *)
C2_CommitAtomic ==
    [][((txn.pc # "idle" \/ txn'.pc # "idle") /\ ~CommitOk) => db' = db]_vars

C2_AbortedWithBatchIntact ==
    /\ result.op = "commit" /\ result.status = "Aborted"
    /\ Live(db, KeyOf(result), now)
    /\ Staged(db, result.user, result.cid, result.batch) # {}

(* C3: a successful commit of batch B for (user, collection) leaves every   *)
(* staging row and batch row of another batch as it was, adds or changes    *)
(* only live BSOs of (user, collection) whose id is staged under B, and     *)
(* stamps every BSO staged under B with the commit's timestamp.             *)
C3_CommitOnlyItsBatch ==
    [][CommitOk
        => LET u == result'.user
               c == result'.cid
               b == result'.batch
           IN /\ \A k \in DOMAIN db.batch_bsos :
                    (k[1] # u \/ k[2] # c \/ k[3] # b)
                        => (k \in DOMAIN db'.batch_bsos
                            /\ db'.batch_bsos[k] = db.batch_bsos[k])
              /\ \A k \in DOMAIN db.batches :
                    k # <<u, c, b>>
                        => (k \in DOMAIN db'.batches /\ db'.batches[k] = db.batches[k])
              /\ \A x \in DOMAIN db'.bsos :
                    (x \notin DOMAIN db.bsos \/ db'.bsos[x] # db.bsos[x])
                        => (x[1] = u /\ x[2] = c
                            /\ <<u, c, b, x[3]>> \in DOMAIN db.batch_bsos)
              /\ \A k \in Staged(db, u, c, b) :
                    /\ <<u, c, k[4]>> \in DOMAIN db'.bsos
                    /\ db'.bsos[<<u, c, k[4]>>].modified = result'.modified]_vars

(* a commit has merged a BSO id that another batch of the same user and     *)
(* collection still stages                                                  *)
C3_OtherBatchKeepsSameId ==
    /\ result.op = "commit" /\ result.status = "Ok"
    /\ \E k \in DOMAIN db.batch_bsos :
          /\ k[1] = result.user /\ k[2] = result.cid /\ k[3] # result.batch
          /\ <<k[1], k[2], k[4]>> \in DOMAIN db.bsos
          /\ db.bsos[<<k[1], k[2], k[4]>>].modified = result.modified

(* C4: a commit that returns, against a batch that has no row or whose      *)
(* expiry has passed, returns BatchNotFound.                                *)
C4_CommitNeedsLiveBatch ==
    [][(txn.pc = "counted" /\ result'.op = "commit" /\ result'.status # "Aborted"
           /\ ~Live(db, KeyOf(result'), now))
        => result'.status = "BatchNotFound"]_vars

(* C5: an append against a batch that has no row under that user and        *)
(* collection (never created, committed, deleted) or that was created       *)
(* BATCH_LIFETIME or more ago returns BatchNotFound and leaves the staging  *)
(* table as it was.                                                         *)
C5_AppendNeedsLiveBatch ==
    [][(AppendStep
           /\ \/ KeyOf(result') \notin DOMAIN db.batches
              \/ now >= created[result'.batch].at + BATCH_LIFETIME)
        => (result'.status = "BatchNotFound" /\ db'.batch_bsos = db.batch_bsos)]_vars

(* an append was refused on a batch whose row is still in the table *)
C5_RefusedOnExpired ==
    /\ result.op = "append" /\ result.status = "BatchNotFound"
    /\ KeyOf(result) \in DOMAIN db.batches

(* C6: validate returns true iff the table holds a row of exactly that      *)
(* user, collection and batch id whose expiry is greater than now; such a   *)
(* row is found only under the user and collection of the create, and its   *)
(* expiry is the create's timestamp plus BATCH_LIFETIME, so the batch       *)
(* validates before that time and not from it on.                           *)
C6_ValidateIffLive ==
    result.op = "validate"
        => LET k == KeyOf(result)
               made == created[result.batch]
           IN /\ result.exists <=> Live(db, k, now)
              /\ result.exists <=> /\ k \in DOMAIN db.batches
                                   /\ made.user = result.user
                                   /\ made.cid = result.cid
                                   /\ now < made.at + BATCH_LIFETIME

(* validate returned false at the very time the batch's row expired *)
C6_FalseAtExpiry ==
    /\ result.op = "validate" /\ ~result.exists
    /\ KeyOf(result) \in DOMAIN db.batches
    /\ now = created[result.batch].at + BATCH_LIFETIME

(* C7: after a successful commit or a delete of batch B its row and its     *)
(* staging rows are gone and B does not validate; a batch id that has been  *)
(* handed out and has no row never gets one again, so B never validates     *)
(* again; and a delete leaves the live BSOs as they were.                   *)
C7_Terminal ==
    [][/\ (CommitOk \/ DeleteStep)
            => LET k == KeyOf(result')
               IN /\ k \notin DOMAIN db'.batches
                  /\ Staged(db', k[1], k[2], k[3]) = {}
                  /\ ~validate_async(db', k[1], k[2], k[3], now')
       /\ DeleteStep => db'.bsos = db.bsos
       /\ \A u \in Users, c \in Colls, b \in BatchIds :
            (b < next_batch /\ <<u, c, b>> \notin DOMAIN db.batches)
                => /\ <<u, c, b>> \notin DOMAIN db'.batches
                   /\ ~validate_async(db', u, c, b, now')]_vars

(* validate returned false for a batch of this user and collection that     *)
(* was committed or deleted before its expiry                               *)
C7_GoneBeforeExpiry ==
    /\ result.op = "validate" /\ ~result.exists
    /\ created[result.batch].user = result.user
    /\ created[result.batch].cid = result.cid
    /\ now < created[result.batch].at + BATCH_LIFETIME
    /\ KeyOf(result) \notin DOMAIN db.batches

(* C8: with quotas enabled, an append to a live batch for which batch.size  *)
(* plus the lengths of the incoming non-null payloads reaches Quota         *)
(* returns Quota and leaves the staging table as it was.                    *)
C8_AppendQuota ==
    [][(AppendStep /\ quota_enabled /\ Live(db, KeyOf(result'), now)
           /\ result'.size # None
           /\ result'.size[1] + result'.incoming >= Quota)
        => (result'.status = "Quota" /\ db'.batch_bsos = db.batch_bsos)]_vars

(* an append was refused at exactly Quota bytes *)
C8_RefusedAtBoundary ==
    /\ quota_enabled
    /\ result.op = "append" /\ result.status = "Quota"
    /\ result.size # None
    /\ result.size[1] + result.incoming = Quota

(* C9: with quotas enabled, a commit that writes to the live BSOs and       *)
(* returns Ok leaves the bytes of (user, collection) below Quota.           *)
C9_CommitQuota ==
    [][(CommitOk /\ quota_enabled /\ db'.bsos # db.bsos)
        => SumBytes(db'.bsos, LiveKeys(db', result'.user, result'.cid, now)) < Quota]_vars

(* C10: the timestamp a successful commit returns is greater than           *)
(* PRETOUCH_TS, than the modified of the collection's row and than the      *)
(* modified of every BSO of (user, collection) stored before the commit.    *)
C10_CommitStampGrows ==
    [][CommitOk
        => LET u == result'.user
               c == result'.cid
               T == result'.modified
           IN /\ T > PRETOUCH_TS
              /\ <<u, c>> \in DOMAIN db.user_collections
                    => T > db.user_collections[<<u, c>>].modified
              /\ \A k \in DOMAIN db.bsos :
                    (k[1] = u /\ k[2] = c) => T > db.bsos[k].modified]_vars

(* a commit returned a timestamp ahead of the clock *)
C10_StampAheadOfClock ==
    /\ result.op = "commit" /\ result.status = "Ok"
    /\ result.modified > now

(* C11: when a commit returns Ok with timestamp T, every BSO staged under   *)
(* its batch is a live BSO with modified = T, and the user_collections row  *)
(* of (user, collection) holds modified = T.                                *)
C11_OneCommitStamp ==
    [][CommitOk
        => LET u == result'.user
               c == result'.cid
               T == result'.modified
           IN /\ <<u, c>> \in DOMAIN db'.user_collections
              /\ db'.user_collections[<<u, c>>].modified = T
              /\ \A k \in Staged(db, u, c, result'.batch) :
                    /\ <<u, c, k[4]>> \in DOMAIN db'.bsos
                    /\ db'.bsos[<<u, c, k[4]>>].modified = T]_vars

(* a commit whose timestamp is ahead of the clock has written a BSO *)
C11_BumpedStampOnBso ==
    /\ result.op = "commit" /\ result.status = "Ok"
    /\ result.modified > now
    /\ \E k \in DOMAIN db.bsos :
          /\ k[1] = result.user /\ k[2] = result.cid
          /\ db.bsos[k].modified = result.modified

(* C12: in every state get_storage_modified_sync(user) is the greatest      *)
(* modified of the user's rows that do not hold PRETOUCH_TS, and            *)
(* get_collections_modified_sync(user) lists exactly those rows; a batch    *)
(* create changes neither answer, so a collection it only pretouched is not *)
(* listed.                                                                  *)
C12_SentinelHidden ==
    [][\A u \in Users :
         /\ \A c \in Colls :
               c \in DOMAIN get_collections_modified_sync(db', u)
                  <=> /\ <<u, c>> \in DOMAIN db'.user_collections
                      /\ db'.user_collections[<<u, c>>].modified # PRETOUCH_TS
         /\ \A c \in DOMAIN get_collections_modified_sync(db', u) :
               /\ get_collections_modified_sync(db', u)[c] = db'.user_collections[<<u, c>>].modified
               /\ get_collections_modified_sync(db', u)[c] <= get_storage_modified_sync(db', u, now')
         /\ \/ get_collections_modified_sync(db', u) = EmptyTable
            \/ \E c \in DOMAIN get_collections_modified_sync(db', u) :
                  get_collections_modified_sync(db', u)[c] = get_storage_modified_sync(db', u, now')
         /\ (result = NoResult /\ result'.op = "create")
               => /\ get_storage_modified_sync(db', u, now) = get_storage_modified_sync(db, u, now)
                  /\ get_collections_modified_sync(db', u) = get_collections_modified_sync(db, u)]_vars

(* a create has pretouched a collection of a user whose other collection    *)
(* holds a real timestamp                                                   *)
C12_PretouchedBesideStamped ==
    /\ result.op = "create" /\ result.status = "Ok"
    /\ db.user_collections[<<result.user, result.cid>>].modified = PRETOUCH_TS
    /\ Stamped(db, result.user) # {}
    /\ get_storage_modified_sync(db, result.user, now) > PRETOUCH_TS
    /\ result.cid \notin DOMAIN get_collections_modified_sync(db, result.user)

(* a put step, and whether the record it names was there before *)
PutStep == result = NoResult /\ result'.op = "put"

PutNew == PutStep /\ ~result'.existed

PutExisting == PutStep /\ result'.existed

PutKey == <<result'.user, result'.cid, result'.bso.id>>

(* C13: a get_bso that follows the put_bso of a new record B returns B's    *)
(* payload, sortindex and modified, and expiry = B.modified + B.ttl * 1000, *)
(* the ttl being seconds and DEFAULT_BSO_TTL when absent.                   *)
C13_PutThenGet ==
    [][PutNew =>
        LET B == result'.bso
            got == get_bso_sync(db', B.user_id, B.collection_id, B.id, B.modified)
        IN /\ got # None
           /\ got[1].payload = UnwrapOr(B.payload, "")
           /\ got[1].sortindex = B.sortindex
           /\ got[1].modified = B.modified
           /\ got[1].expiry = B.modified + UnwrapOr(B.ttl, DEFAULT_BSO_TTL) * MsPerSecond]_vars

(* C14 as stated: a put_bso on an existing record that omits the payload    *)
(* leaves the stored modified and payload unchanged, and changes the expiry *)
(* iff a ttl is supplied, computing it from the incoming modified.          *)
C14_NoPayloadKeepsModified ==
    [][PutExisting /\ result'.bso.payload = None =>
        LET B == result'.bso
        IN /\ db'.bsos[PutKey].payload = db.bsos[PutKey].payload
           /\ db'.bsos[PutKey].modified = db.bsos[PutKey].modified
           /\ db'.bsos[PutKey].expiry =
                 IF B.ttl # None THEN B.modified + B.ttl[1]
                 ELSE db.bsos[PutKey].expiry]_vars

(* C14: a put_bso on an existing record that omits the payload leaves the   *)
(* stored payload unchanged; it leaves the stored modified unchanged when   *)
(* it omits the sortindex too (a ttl-only put) and sets it to the incoming  *)
(* modified when it supplies a sortindex; the expiry changes iff a ttl is   *)
(* supplied, computed from the incoming modified.                           *)
C14_PartialPut ==
    [][PutExisting /\ result'.bso.payload = None =>
        LET B == result'.bso
        IN /\ db'.bsos[PutKey].payload = db.bsos[PutKey].payload
           /\ db'.bsos[PutKey].modified =
                 IF B.sortindex = None THEN db.bsos[PutKey].modified
                 ELSE B.modified
           /\ db'.bsos[PutKey].expiry =
                 IF B.ttl # None THEN B.modified + B.ttl[1]
                 ELSE db.bsos[PutKey].expiry]_vars

(* a sortindex-only put has moved the modified of a record first put at 1 *)
C14_SortindexPutMovedModified ==
    /\ result.op = "put"
    /\ result.existed
    /\ result.bso.payload = None
    /\ result.bso.sortindex # None
    /\ result.bso.modified = 2
    /\ db.bsos[<<result.user, result.cid, result.bso.id>>].modified = 2
    /\ db.bsos[<<result.user, result.cid, result.bso.id>>].expiry = 3

(* C15: a put_bso on an existing record that supplies a payload and omits   *)
(* sortindex and ttl replaces the payload and sets modified to the incoming *)
(* modified, while the stored sortindex and expiry stay as they were (the   *)
(* expiry remains the first put's modified + ttl).                          *)
C15_PayloadPut ==
    [][(/\ PutExisting
        /\ result'.bso.payload # None
        /\ result'.bso.sortindex = None
        /\ result'.bso.ttl = None) =>
        /\ db'.bsos[PutKey].payload = result'.bso.payload[1]
        /\ db'.bsos[PutKey].modified = result'.bso.modified
        /\ db'.bsos[PutKey].sortindex = db.bsos[PutKey].sortindex
        /\ db'.bsos[PutKey].expiry = db.bsos[PutKey].expiry]_vars

(* a payload-only put at 2 over the record put at 1 with sortindex 7 and    *)
(* ttl 2                                                                    *)
C15_PayloadReplacedExpiryKept ==
    /\ result.op = "put"
    /\ result.existed
    /\ result.bso.payload = Some("bb")
    /\ result.bso.sortindex = None
    /\ result.bso.ttl = None
    /\ result.bso.modified = 2
    /\ db.bsos[<<result.user, result.cid, result.bso.id>>] =
          [sortindex |-> Some(7), payload |-> "bb", modified |-> 2, expiry |-> 3]

(* a step that ends a put_bso, a delete_bsos or a successful commit *)
DeleteBsosStep == result = NoResult /\ result'.op = "delete_bsos"

StoreWrite == PutStep \/ DeleteBsosStep \/ CommitOk

(* C16 as stated: after any put_bso, delete_bsos or commit, for every       *)
(* (user, collection) user_collections.modified equals the maximum modified *)
(* over the non-expired BSOs of the collection, except while the row holds  *)
(* PRETOUCH_TS and nothing has been committed; also after a TTL-only put    *)
(* and after deleting the most recently modified record.                    *)
C16_RowIsNewestBso ==
    [][StoreWrite =>
        \A user \in Users, cid \in Colls :
            (LiveKeys(db', user, cid, now) # {} /\ ~Unstamped(db', user, cid)) =>
                /\ \A k \in LiveKeys(db', user, cid, now) :
                      db'.bsos[k].modified <= db'.user_collections[<<user, cid>>].modified
                /\ \E k \in LiveKeys(db', user, cid, now) :
                      db'.bsos[k].modified = db'.user_collections[<<user, cid>>].modified]_vars

(* C16: after any put_bso, delete_bsos or commit, every (user, collection)  *)
(* that holds BSOs has a user_collections row whose modified is not the     *)
(* sentinel and is greater than or equal to the modified of each of its     *)
(* BSOs.  It equals the modified of a BSO of the collection right after a   *)
(* put_bso that writes the record's modified with a timestamp not older     *)
(* than the row, and right after a commit that merges at least one record;  *)
(* a TTL-only put and a delete leave the row ahead of the records.          *)
C16_RowBoundsBsos ==
    [][StoreWrite =>
        /\ \A user \in Users, cid \in Colls : \A k \in BsosOf(db', user, cid) :
              /\ ~Unstamped(db', user, cid)
              /\ db'.bsos[k].modified <= db'.user_collections[<<user, cid>>].modified
        /\ (/\ PutStep
            /\ ~result'.existed \/ result'.bso.payload # None \/ result'.bso.sortindex # None
            /\ \/ <<result'.user, result'.cid>> \notin DOMAIN db.user_collections
               \/ db.user_collections[<<result'.user, result'.cid>>].modified
                     <= result'.bso.modified)
           => /\ db'.bsos[PutKey].modified = result'.bso.modified
              /\ db'.user_collections[<<result'.user, result'.cid>>].modified
                    = result'.bso.modified
        /\ (CommitOk /\ Staged(db, result'.user, result'.cid, result'.batch) # {})
           => \E k \in BsosOf(db', result'.user, result'.cid) :
                 db'.bsos[k].modified
                    = db'.user_collections[<<result'.user, result'.cid>>].modified]_vars

(* a TTL-only put has left the row ahead of every record of the collection, *)
(* the record it touched not expired                                        *)
C16_TtlPutAheadOfRecords ==
    /\ result.op = "put"
    /\ result.existed
    /\ result.bso.payload = None /\ result.bso.sortindex = None
    /\ db.bsos[<<result.user, result.cid, result.bso.id>>].expiry > now
    /\ \A k \in BsosOf(db, result.user, result.cid) :
          db.bsos[k].modified < db.user_collections[<<result.user, result.cid>>].modified

TouchStep == result = NoResult /\ result'.op = "touch"

DeleteCollectionStep == result = NoResult /\ result'.op = "delete_collection"

(* C17: the modified of a (user, collection) never decreases: every step of *)
(* put_bso, touch_collection, delete_bsos and commit leaves the row of a    *)
(* collection that has one in place with a modified greater than or equal   *)
(* to its previous value, and touch_collection stores max(existing, input). *)
(* (A delete_collection removes the row of its collection and leaves the    *)
(* other rows alone.)                                                       *)
C17_ModifiedNeverDecreases ==
    [][/\ \A k \in DOMAIN db.user_collections :
             (DeleteCollectionStep /\ k = <<result'.user, result'.cid>>)
             \/ /\ k \in DOMAIN db'.user_collections
                /\ db'.user_collections[k].modified >= db.user_collections[k].modified
       /\ (TouchStep /\ <<result'.user, result'.cid>> \in DOMAIN db.user_collections)
          => db'.user_collections[<<result'.user, result'.cid>>].modified
                = Max(db.user_collections[<<result'.user, result'.cid>>].modified,
                      result'.modified)]_vars

(* a touch with a timestamp older than the row's has returned, the row      *)
(* still ahead of it                                                        *)
C17_OlderTouchIgnored ==
    /\ result.op = "touch"
    /\ <<result.user, result.cid>> \in DOMAIN db.user_collections
    /\ db.user_collections[<<result.user, result.cid>>].modified > result.modified

(* the records a get_bsos result was selected from, and how many of them    *)
(* come before record k in the order asked for                              *)
Asked(r) == Matching(db, r.user, r.cid, r.ids, r.older, r.newer, now)

RankOf(r, k) == Cardinality({j \in Asked(r) : Precedes(db, r.sort, j, k)})

Range(seq) == {seq[i] : i \in 1..Len(seq)}

(* C18: get_bsos with limit > 0 returns the matching records at positions   *)
(* offset .. offset+limit-1 of the sorted result, at most limit of them;    *)
(* more is true iff a matching record lies past the returned page; the      *)
(* returned offset is offset + returned count when more is true and 0 when  *)
(* it is false; following the returned offsets from 0 over an unchanged     *)
(* store returns every matching record exactly once.                        *)
C18_Paging ==
    (result.op = "get_bsos" /\ result.limit > 0) =>
        LET n == Cardinality(Asked(result))
            page == result.bsos
        IN /\ Len(page) = Max(0, Min(result.limit, n - result.asked))
           /\ \A i \in 1..Len(page) :
                 /\ page[i] \in Asked(result)
                 /\ RankOf(result, page[i]) = result.asked + i - 1
           /\ result.more <=> n > result.asked + Len(page)
           /\ result.offset = IF result.more THEN result.asked + Len(page) ELSE 0
           /\ (result.from = 0 /\ ~result.more) =>
                 /\ Len(result.seen) = n
                 /\ Range(result.seen) = Asked(result)

(* three records read in pages of two: the second page holds the one left   *)
(* and returns offset 0                                                     *)
C18_LastPageShort ==
    /\ result.op = "get_bsos"
    /\ result.limit = 2 /\ result.from = 0 /\ result.asked = 2
    /\ Len(result.bsos) = 1 /\ Len(result.seen) = 3
    /\ ~result.more /\ result.offset = 0

(* C19: get_bsos with limit = 0 returns no records and offset 0, with more  *)
(* true iff at least one record matches the filter; with limit < 0 it       *)
(* returns all matching records with more false and offset 0.               *)
C19_LimitBoundaries ==
    /\ (result.op = "get_bsos" /\ result.limit = 0) =>
          /\ result.bsos = <<>>
          /\ result.offset = 0
          /\ result.more <=> Asked(result) # {}
    /\ (result.op = "get_bsos" /\ result.limit < 0) =>
          /\ Range(result.bsos) = Asked(result)
          /\ Len(result.bsos) = Cardinality(Asked(result))
          /\ ~result.more
          /\ result.offset = 0

(* a limit of 0 over a collection with matching records: nothing returned,  *)
(* more set                                                                 *)
C19_ProbeFindsMore ==
    /\ result.op = "get_bsos"
    /\ result.limit = 0
    /\ result.bsos = <<>> /\ result.more /\ result.offset = 0
    /\ Cardinality(Asked(result)) = MaxRecords

(* C20 as stated: every record get_bsos returns has expiry > ttl_floor (the *)
(* fourth argument), modified strictly greater than newer_than and, when    *)
(* ids is non-empty, an id in ids; every record of the collection with all  *)
(* three is part of the unpaged result.                                     *)
C20_AboveTtlFloor ==
    result.op = "get_bsos" =>
        LET wanted == {k \in BsosOf(db, result.user, result.cid) :
                          /\ db.bsos[k].expiry > result.older
                          /\ db.bsos[k].modified > result.newer
                          /\ result.ids = {} \/ k[3] \in result.ids}
        IN /\ Range(result.bsos) \subseteq wanted
           /\ result.limit < 0 => wanted \subseteq Range(result.bsos)

(* C20: get_bsos and get_bso never return an expired or filtered-out        *)
(* record: every record get_bsos returns has expiry greater than the time   *)
(* of the call, modified strictly greater than newer_than (a record with    *)
(* modified equal to newer_than is excluded) and, when ids is non-empty, an *)
(* id in ids; called with MAX_TIMESTAMP as its fourth argument, which is    *)
(* not a floor on the expiry, the unpaged result holds every record of the  *)
(* collection with all three; get_bso returns a record iff the collection   *)
(* holds it with expiry greater than the time of the call.                  *)
C20_OnlyLiveMatches ==
    /\ result.op = "get_bsos" =>
          LET wanted == {k \in BsosOf(db, result.user, result.cid) :
                            /\ db.bsos[k].expiry > now
                            /\ db.bsos[k].modified > result.newer
                            /\ result.ids = {} \/ k[3] \in result.ids}
          IN /\ Range(result.bsos) \subseteq wanted
             /\ (result.limit < 0 /\ result.older = MAX_TIMESTAMP) =>
                   wanted \subseteq Range(result.bsos)
    /\ result.op = "get_bso" =>
          LET k == <<result.user, result.cid, result.id>>
          IN IF k \in DOMAIN db.bsos /\ db.bsos[k].expiry > now
             THEN result.found = Some(db.bsos[k])
             ELSE result.found = None

(* an unpaged call has returned records and left out one that expired at    *)
(* the time of the call and one whose modified is newer_than                *)
C20_ExpiredAndEqualLeftOut ==
    /\ result.op = "get_bsos"
    /\ result.limit < 0 /\ result.ids = {}
    /\ result.bsos # <<>>
    /\ \E k \in BsosOf(db, result.user, result.cid) :
          db.bsos[k].expiry = now /\ k \notin Range(result.bsos)
    /\ \E k \in BsosOf(db, result.user, result.cid) :
          /\ db.bsos[k].expiry > now
          /\ db.bsos[k].modified = result.newer
          /\ k \notin Range(result.bsos)

(* C21: get_bsos returns its records, with sort = Newest, in non-increasing *)
(* modified order; with Oldest, in non-decreasing modified order; with      *)
(* Index, in non-increasing sortindex order with the records of NULL        *)
(* sortindex last and equal sortindexes in modified descending order.       *)
C21_Ordering ==
    result.op = "get_bsos" =>
        \A i, j \in 1..Len(result.bsos) : i < j =>
            LET a == db.bsos[result.bsos[i]]
                b == db.bsos[result.bsos[j]]
            IN /\ result.sort = "Newest" => a.modified >= b.modified
               /\ result.sort = "Oldest" => a.modified <= b.modified
               /\ result.sort = "Index" =>
                     /\ a.sortindex = None => b.sortindex = None
                     /\ (a.sortindex # None /\ b.sortindex # None) =>
                           a.sortindex[1] >= b.sortindex[1]
                     /\ a.sortindex = b.sortindex => a.modified >= b.modified

(* an Index listing of three records: the higher sortindex first, then the  *)
(* newer of two equal ones, the record without sortindex last               *)
C21_IndexTieAndNull ==
    /\ result.op = "get_bsos"
    /\ result.sort = "Index"
    /\ Len(result.bsos) = 3
    /\ db.bsos[result.bsos[1]].sortindex = Some(2)
    /\ db.bsos[result.bsos[2]].sortindex = Some(2)
    /\ db.bsos[result.bsos[3]].sortindex = None
    /\ db.bsos[result.bsos[3]].modified > db.bsos[result.bsos[1]].modified

(* C22: delete_bsos(user, cid, ids) removes exactly the records of that     *)
(* user and collection whose id is in ids: the records with the same id in  *)
(* another collection or of another user, and the records of the collection *)
(* with other ids, stay as they were; ids that name no record remove        *)
(* nothing and the call still returns.                                      *)
C22_DeleteExactlyNamed ==
    [][DeleteBsosStep =>
        /\ \A k \in DOMAIN db.bsos :
              IF k[1] = result'.user /\ k[2] = result'.cid /\ k[3] \in result'.ids
              THEN k \notin DOMAIN db'.bsos
              ELSE k \in DOMAIN db'.bsos /\ db'.bsos[k] = db.bsos[k]
        /\ DOMAIN db'.bsos \subseteq DOMAIN db.bsos]_vars

(* a delete of b1 and b2 in collection 1 has returned: it removed b1, b2    *)
(* named no record, and b1 of collection 2 is still there                   *)
C22_SameIdElsewhereKept ==
    /\ result.op = "delete_bsos"
    /\ result.user = "u1" /\ result.cid = 1 /\ result.ids = {"b1", "b2"}
    /\ result.removed = {<<"u1", 1, "b1">>}
    /\ DOMAIN db.bsos = {<<"u1", 2, "b1">>}

(* the user's other collections that hold a timestamp, before the delete *)
OthersOf(D, user, cid) ==
    {k \in DOMAIN D.user_collections :
        k[1] = user /\ k[2] # cid /\ D.user_collections[k].modified # PRETOUCH_TS}

Created(w) == callers[w].pc = "done" /\ callers[w].op = "create"

C25_ConcurrentCreate ==
    /\ \A w \in Writers : Created(w) =>
          /\ callers[w].status = "Ok"
          /\ Cardinality({r \in collections : r.name = callers[w].name}) = 1
    /\ \A w, v \in Writers :
          (Created(w) /\ Created(v) /\ callers[w].name = callers[v].name) =>
              callers[w].id = callers[v].id

(* the two writers are in a create of the same name: the one whose insert   *)
(* went through has not returned yet, the other has recovered from its      *)
(* Integrity error with the same id                                         *)
C25_LoserRecovered ==
    /\ Created("w1") /\ ~callers["w1"].recovered
    /\ Created("w2") /\ callers["w2"].recovered
    /\ callers["w1"].name = callers["w2"].name
    /\ callers["w1"].id = callers["w2"].id

(* C26: when an incoming BSO's (collection_id, batch_id, bso_id) is already *)
(* staged, a successful append leaves that staging row with each supplied   *)
(* field (sortindex, payload, ttl) replaced and each omitted field as it    *)
(* was staged; re-appending an id with only a sortindex does not erase the  *)
(* staged payload.                                                          *)
C26_AppendUpsert ==
    [][(AppendStep /\ result'.status = "Ok") =>
        LET b == result'.batch
        IN \A id \in DOMAIN appended[b] :
              LET k == <<result'.user, result'.cid, b, id>>
              IN (k \in DOMAIN db.batch_bsos /\ db.batch_bsos[k] = appended[b][id]) =>
                    /\ k \in DOMAIN db'.batch_bsos
                    /\ db'.batch_bsos[k] = appended'[b][id]]_vars

CreateStep == result = NoResult /\ result'.op = "create"

(* C27: a batch create inserts a user_collections row with modified =       *)
(* PRETOUCH_TS only when (user, collection) has no row; when it has one,    *)
(* the create leaves the row's modified, count and total_bytes as they      *)
(* were, so it never resets a collection with data to the sentinel.         *)
C27_PretouchOnlyWhenAbsent ==
    [][CreateStep =>
        LET k == <<result'.user, result'.cid>>
        IN /\ k \in DOMAIN db.user_collections =>
                 /\ k \in DOMAIN db'.user_collections
                 /\ db'.user_collections[k] = db.user_collections[k]
           /\ (k \notin DOMAIN db.user_collections /\ k \in DOMAIN db'.user_collections) =>
                 db'.user_collections[k].modified = PRETOUCH_TS
           /\ result'.status = "Ok" => k \in DOMAIN db'.user_collections
           /\ \A x \in DOMAIN db.user_collections :
                 x \in DOMAIN db'.user_collections
                    /\ db'.user_collections[x] = db.user_collections[x]]_vars

(* a batch has been created in a collection a commit had stamped: the row   *)
(* still holds the commit's timestamp                                       *)
C27_CreateOverStampedRow ==
    /\ result.op = "create" /\ result.status = "Ok"
    /\ <<result.user, result.cid, result.batch>> \in DOMAIN db.batches
    /\ db.user_collections[<<result.user, result.cid>>].modified > PRETOUCH_TS
    /\ \E k \in DOMAIN db.bsos : k[1] = result.user /\ k[2] = result.cid

====
